---- MODULE Spec2Model ----
(***************************************************************************)
(* Model of the Option and Result containers of src/src/Option.js (the     *)
(* module proper, lines 205-610) and src/src/Result.js.                    *)
(*                                                                         *)
(* JavaScript objects have identity and mutable slots, so the state is a   *)
(* heap: a sequence of objects, an object's reference being its index.     *)
(* A value is a primitive or a reference.  Every method is an operator     *)
(* from the heap, the receiver and the arguments to an outcome: the new    *)
(* heap, the value returned or thrown, the kind of error thrown and the    *)
(* number of times the callback was invoked.  A callback is modelled by    *)
(* the value it returns when it is invoked.                                *)
(***************************************************************************)
EXTENDS Integers, Sequences, FiniteSets, TLC

VARIABLES heap, last, inserted, finished

vars == <<heap, last, inserted, finished>>

\* Largest number of objects the heap holds when every operation of the two
\* modules may be called (Spec).
MaxObjects == 2

\* Largest number of objects the heap holds in the life of Option
\* containers (SpecCell).
MaxHeap == 3

\* Largest number of objects the heap holds when Option containers are
\* iterated (SpecIter): a container and two iterators over it.
MaxIterHeap == 3

\* Largest number of objects the heap holds when containers of containers
\* are transposed (SpecTranspose): an inner container, the two built around
\* it and the two that transpose() builds.
MaxTransposeHeap == 5

(***************************************************************************)
(* Values                                                                  *)
(***************************************************************************)
Prim(p) == [t |-> "prim", p |-> p, r |-> 0]

Ref(i) == [t |-> "ref", p |-> "object", r |-> i]

\* `void 0`
Undef == Prim("undefined")

Bool(b) == IF b THEN Prim("true") ELSE Prim("false")

Refs(h) == {Ref(i) : i \in 1..Len(h)}

\* Values handed to the operations and returned by the callbacks: the
\* absent-marker, a falsy and a truthy primitive, and every object.
Vals(h) == {Undef, Prim("0"), Prim("1")} \cup Refs(h)

\* The same with every falsy primitive the language has.
WideVals(h) == {Prim(p) : p \in {"undefined", "null", "0", "false", "", "1"}} \cup Refs(h)

\* Values that containers to be transposed are built from.
NestVals(h) == {Undef, Prim("0")} \cup Refs(h)

\* Fallback values of the operations that take one (unwrapOr, mapOr).
Alts == {Undef, Prim("1")}

\* What a predicate may return: the booleans and a value that is not one.
PredicateVals == {Bool(TRUE), Bool(FALSE), Prim("1")}

\* An instance of Error.
AnError == Prim("Error")

\* JavaScript truthiness, as `if (x)` and `x && y` test it.
Truthy(v) == v.t = "ref" \/ v.p \in {"1", "true", "Error"}

\* `x == null`
Nullish(v) == v.t = "prim" /\ v.p \in {"undefined", "null"}

(***************************************************************************)
(* Objects                                                                 *)
(***************************************************************************)
\* class Option: constructor(value)
Option(value) ==
    [cls |-> "Option", hasValue |-> value # Undef, value |-> value,
     hasError |-> FALSE, error |-> Undef, taken |-> FALSE]

\* class Result: constructor(value, error)
Result(value, error) ==
    [cls |-> "Result", hasValue |-> value # Undef, value |-> value,
     hasError |-> error # Undef, error |-> error, taken |-> FALSE]

\* The object literal an iterator is: its closure holds `this` (kept in the
\* value field) and the flag `taken`.
Iterator(this) ==
    [cls |-> "Iterator", hasValue |-> FALSE, value |-> Ref(this),
     hasError |-> FALSE, error |-> Undef, taken |-> FALSE]

\* Receiver recorded for a call that has none (a factory or a static).
NoObject ==
    [cls |-> "none", hasValue |-> FALSE, value |-> Undef,
     hasError |-> FALSE, error |-> Undef, taken |-> FALSE]

Options(h) == {i \in 1..Len(h) : h[i].cls = "Option"}

Results(h) == {i \in 1..Len(h) : h[i].cls = "Result"}

Iterators(h) == {i \in 1..Len(h) : h[i].cls = "Iterator"}

(***************************************************************************)
(* Outcomes                                                                *)
(***************************************************************************)
Out(h, ret, err, calls) ==
    [h |-> h, ret |-> ret, err |-> err, calls |-> calls, done |-> FALSE]

Return(h, v) == Out(h, v, "none", 0)

Throw(h, kind) == Out(h, Undef, kind, 0)

\* The outcome `o` of code that ran after the callback was invoked once.
Called(o) == [o EXCEPT !.calls = @ + 1]

\* `new C(...)`: the object is appended and its reference returned.
New(h, obj) == Return(Append(h, obj), Ref(Len(h) + 1))

(***************************************************************************)
(* Option.js: queries and extraction                                       *)
(***************************************************************************)
\* `'value' in this`
Option_isSome(o) == o.hasValue

Option_isNone(o) == ~Option_isSome(o)

Option_expect(h, this) ==
    IF Option_isSome(h[this]) THEN Return(h, h[this].value) ELSE Throw(h, "Error")

\* unwrap with the defect of taking the value out of the receiver.
Option_unwrap_taking(h, this) ==
    IF Option_isSome(h[this])
    THEN Return([h EXCEPT ![this].value = Undef, ![this].hasValue = FALSE], h[this].value)
    ELSE Throw(h, "Error")

Option_unwrap(h, this) ==
    IF Option_isSome(h[this]) THEN Return(h, h[this].value) ELSE Throw(h, "Error")

Option_unwrapOr(h, this, alt) ==
    IF Option_isSome(h[this]) THEN Return(h, h[this].value) ELSE Return(h, alt)

Option_unwrapOrElse(h, this, fn) ==
    IF Option_isSome(h[this]) THEN Return(h, h[this].value)
    ELSE Called(Return(h, fn))

_isOption(h, x) == x.t = "ref" /\ h[x.r].cls = "Option"

_isResult(h, x) == x.t = "ref" /\ h[x.r].cls = "Result"

(***************************************************************************)
(* Option.js: factories                                                    *)
(***************************************************************************)
None(h) == New(h, Option(Undef))

\* Some with the defect of testing the argument's truthiness instead of
\* comparing it with undefined.
Some_rejectsFalsy(h, value) ==
    IF ~Truthy(value) THEN New(h, Option(Undef))
    ELSE IF _isOption(h, value)
         THEN New(h, Option(Option_unwrapOr(h, value.r, Undef).ret))
         ELSE New(h, Option(value))

Some(h, value) ==
    IF value = Undef THEN Throw(h, "TypeError")
    ELSE IF _isOption(h, value)
         THEN New(h, Option(Option_unwrapOr(h, value.r, Undef).ret))
         ELSE New(h, Option(value))

Option_default(h) == None(h)

Option_from(h, val) == IF val = Undef THEN None(h) ELSE Some(h, val)

(***************************************************************************)
(* Option.js: mutating operations                                          *)
(***************************************************************************)
\* `this.value = v`
SetValue(h, this, v) == [h EXCEPT ![this].value = v, ![this].hasValue = TRUE]

\* `delete this.value`
DeleteValue(h, this) == [h EXCEPT ![this].value = Undef, ![this].hasValue = FALSE]

\* The end of both getOrInsert operations: the `unreachable` check, then
\* `return this.value`.
ReturnContained(h, this) ==
    IF Option_isNone(h[this]) THEN Throw(h, "Error") ELSE Return(h, h[this].value)

\* getOrInsert with the defect of storing v whatever the receiver holds.
Option_getOrInsert_overwriting(h, this, v) ==
    IF v = Undef THEN Throw(h, "TypeError")
    ELSE ReturnContained(SetValue(h, this, v), this)

Option_getOrInsert(h, this, v) ==
    IF v = Undef THEN Throw(h, "TypeError")
    ELSE IF Option_isNone(h[this]) THEN ReturnContained(SetValue(h, this, v), this)
         ELSE ReturnContained(h, this)

\* getOrInsertWith with the defect of storing a computed Option as it is.
Option_getOrInsertWith_nesting(h, this, fn) ==
    IF Option_isNone(h[this])
    THEN Called(
           IF fn = Undef THEN Throw(h, "TypeError")
           ELSE IF _isOption(h, fn) /\ Option_isNone(h[fn.r]) THEN Throw(h, "TypeError")
           ELSE ReturnContained(SetValue(h, this, fn), this))
    ELSE ReturnContained(h, this)

Option_getOrInsertWith(h, this, fn) ==
    IF Option_isNone(h[this])
    THEN Called(
           IF fn = Undef THEN Throw(h, "TypeError")
           ELSE IF _isOption(h, fn)
                THEN IF Option_isNone(h[fn.r]) THEN Throw(h, "TypeError")
                     ELSE ReturnContained(
                            SetValue(h, this, Option_unwrap(h, fn.r).ret), this)
                ELSE ReturnContained(SetValue(h, this, fn), this))
    ELSE ReturnContained(h, this)

Option_take(h, this) ==
    IF Option_isNone(h[this]) THEN Return(h, Ref(this))
    ELSE LET taken == h[this].value
         IN  Some(DeleteValue(h, this), taken)

\* replace with the defect of writing the slot before checking the argument.
Option_replace_writingFirst(h, this, v) ==
    IF v = Undef THEN Throw(SetValue(h, this, v), "TypeError")
    ELSE IF Option_isSome(h[this])
         THEN LET oldValue == h[this].value
              IN  Some(SetValue(h, this, v), oldValue)
         ELSE None(SetValue(h, this, v))

Option_replace(h, this, v) ==
    IF v = Undef THEN Throw(h, "TypeError")
    ELSE IF Option_isSome(h[this])
         THEN LET oldValue == h[this].value
              IN  Some(SetValue(h, this, v), oldValue)
         ELSE None(SetValue(h, this, v))

(***************************************************************************)
(* Result.js: queries, extraction and factories                            *)
(***************************************************************************)
\* `this.value !== void 0`
Result_isOk(o) == o.value # Undef

Result_isErr(o) == ~Result_isOk(o)

Result_unwrap(h, this) ==
    IF Result_isOk(h[this]) THEN Return(h, h[this].value) ELSE Throw(h, "Error")

Result_expect(h, this) ==
    IF Result_isOk(h[this]) THEN Return(h, h[this].value) ELSE Throw(h, "Error")

Result_unwrapErr(h, this) ==
    IF Result_isErr(h[this]) THEN Return(h, h[this].error) ELSE Throw(h, "Error")

Result_expectErr(h, this) ==
    IF Result_isOk(h[this]) THEN Throw(h, "Error") ELSE Return(h, h[this].error)

Result_unwrapOr(h, this, nextError) ==
    IF Result_isOk(h[this]) THEN Return(h, h[this].value) ELSE Return(h, nextError)

Result_unwrapOrElse(h, this, fn) ==
    IF Result_isOk(h[this]) THEN Return(h, h[this].value)
    ELSE Called(Return(h, fn))

\* `throw this.error`: the value thrown is the outcome's value.
Result_try(h, this) ==
    IF Result_isOk(h[this]) THEN Return(h, h[this].value)
    ELSE Out(h, h[this].error, "thrown", 0)

Ok(h, value) ==
    IF _isResult(h, value) /\ Result_isErr(h[value.r])
    THEN New(h, Result(Undef, Result_unwrapErr(h, value.r).ret))
    ELSE New(h, Result(value, Undef))

Err(h, error) ==
    IF _isResult(h, error) /\ Result_isOk(h[error.r])
    THEN New(h, Result(Result_unwrap(h, error.r).ret, Undef))
    ELSE New(h, Result(Undef, error))

(***************************************************************************)
(* Module loading.  Option.js requires Result.js and Result.js requires    *)
(* Option.js.  The module that is required first sees the other's complete *)
(* exports; the other one destructures the first one's still empty exports *)
(* and binds undefined.  The test suite requires Option.js first.          *)
(***************************************************************************)
OptionLoadedFirst == TRUE

\* `Ok(...)` and `Err(...)` as Option.js calls them.
Option_Ok(h, value) == IF OptionLoadedFirst THEN Ok(h, value) ELSE Throw(h, "TypeError")

Option_Err(h, error) == IF OptionLoadedFirst THEN Err(h, error) ELSE Throw(h, "TypeError")

\* `Some(...)` and `None()` as Result.js calls them.
Result_Some(h, value) == IF OptionLoadedFirst THEN Throw(h, "TypeError") ELSE Some(h, value)

Result_None(h) == IF OptionLoadedFirst THEN Throw(h, "TypeError") ELSE None(h)

(***************************************************************************)
(* Option.js: transforming and combining                                   *)
(***************************************************************************)
\* map with the defect of wrapping with the constructor instead of Some, so
\* that an Option returned by fn is nested.
Option_map_nesting(h, this, fn) ==
    IF Option_isSome(h[this])
    THEN Called(IF fn = Undef THEN Throw(h, "TypeError") ELSE New(h, Option(fn)))
    ELSE Return(h, Ref(this))

Option_map(h, this, fn) ==
    IF Option_isSome(h[this]) THEN Called(Some(h, fn)) ELSE Return(h, Ref(this))

Option_mapOr(h, this, altValue, fn) ==
    IF Option_isSome(h[this]) THEN Called(Return(h, fn)) ELSE Return(h, altValue)

Option_mapOrElse(h, this, computeAltValue, fn) ==
    IF Option_isSome(h[this]) THEN Called(Return(h, fn))
    ELSE Called(Return(h, computeAltValue))

Option_okOr(h, this, error) ==
    IF Option_isSome(h[this]) THEN Option_Ok(h, h[this].value) ELSE Option_Err(h, error)

Option_okOrElse(h, this, getError) ==
    IF Option_isSome(h[this]) THEN Option_Ok(h, h[this].value)
    ELSE Called(Option_Err(h, getError))

Option_and(h, this, rhsOption) ==
    IF Option_isSome(h[this]) THEN Return(h, rhsOption) ELSE Return(h, Ref(this))

Option_andThen(h, this, fn) ==
    IF Option_isSome(h[this])
    THEN Called(IF ~_isOption(h, fn) THEN Throw(h, "TypeError") ELSE Return(h, fn))
    ELSE Return(h, Ref(this))

Option_flatMap(h, this, fn) == Option_andThen(h, this, fn)

Option_filter(h, this, predicate) ==
    IF Option_isSome(h[this])
    THEN Called(IF predicate \notin {Bool(TRUE), Bool(FALSE)} THEN Throw(h, "TypeError")
                ELSE IF predicate = Bool(TRUE) THEN Return(h, Ref(this))
                ELSE None(h))
    ELSE Return(h, Ref(this))

Option_or(h, this, altOption) ==
    IF ~_isOption(h, altOption) THEN Throw(h, "TypeError")
    ELSE IF Option_isSome(h[this]) THEN Return(h, Ref(this))
    ELSE Return(h, altOption)

Option_orElse(h, this, fn) ==
    IF Option_isSome(h[this]) THEN Return(h, Ref(this))
    ELSE Called(IF ~_isOption(h, fn) THEN Throw(h, "TypeError") ELSE Return(h, fn))

Option_xor(h, this, altOption) ==
    IF ~_isOption(h, altOption) THEN Throw(h, "TypeError")
    ELSE IF Option_isSome(h[this]) /\ Option_isNone(h[altOption.r]) THEN Return(h, Ref(this))
    ELSE IF Option_isNone(h[this]) /\ Option_isSome(h[altOption.r]) THEN Return(h, altOption)
    ELSE None(h)

Option_iter(h, this) == New(h, Iterator(this))

\* `next()` of an iterator that iter() returned.
Option_iter_next(h, it) ==
    LET this == h[it].value.r
    IN  IF Option_isNone(h[this]) \/ h[it].taken
        THEN [Return(h, Undef) EXCEPT !.done = TRUE]
        ELSE Return([h EXCEPT ![it].taken = TRUE], h[this].value)

\* `this.value.constructor.name`: reading a property of null throws.
Option_transpose(h, this) ==
    IF Option_isNone(h[this]) THEN Option_Ok(h, Ref(this))
    ELSE IF ~_isResult(h, h[this].value) THEN Throw(h, "TypeError")
    ELSE IF Result_isOk(h[h[this].value.r])
         THEN LET value == Result_unwrap(h, h[this].value.r).ret
                  some == Some(h, value)
              IN  IF some.err # "none" THEN some ELSE Option_Ok(some.h, some.ret)
         ELSE LET error == Result_unwrapErr(h, h[this].value.r).ret
              IN  Option_Err(h, error)

(***************************************************************************)
(* Result.js: transforming and combining                                   *)
(***************************************************************************)
Result_map(h, this, fn) ==
    IF Result_isOk(h[this]) THEN Called(Ok(h, fn)) ELSE Return(h, Ref(this))

Result_mapErr(h, this, fn) ==
    IF Result_isErr(h[this]) THEN Called(Err(h, fn)) ELSE Return(h, Ref(this))

Result_iterator(h, this) == New(h, Iterator(this))

\* `next()` of an iterator that [Symbol.iterator]() returned.
Result_iterator_next(h, it) ==
    LET this == h[it].value.r
    IN  IF ~h[it].taken
        THEN Return([h EXCEPT ![it].taken = TRUE],
                    IF Result_isOk(h[this]) THEN h[this].value ELSE h[this].error)
        ELSE [Return(h, Undef) EXCEPT !.done = TRUE]

Result_and(h, this, rhs) ==
    IF Result_isErr(h[this]) THEN Return(h, Ref(this)) ELSE Return(h, rhs)

Result_andThen(h, this, fn) ==
    IF Result_isOk(h[this])
    THEN Called(IF ~_isResult(h, fn) THEN Throw(h, "TypeError") ELSE Return(h, fn))
    ELSE Return(h, Ref(this))

Result_flatMap(h, this, fn) == Result_andThen(h, this, fn)

\* `x.error`: undefined unless x is an object with an error slot; reading
\* a property of undefined or null throws.
ErrorOf(h, x) == IF _isResult(h, x) THEN h[x.r].error ELSE Undef

Result_or(h, this, rhs) ==
    IF Nullish(rhs) THEN Throw(h, "TypeError")
    ELSE IF Truthy(h[this].error) /\ Truthy(ErrorOf(h, rhs)) THEN Return(h, rhs)
    ELSE IF Truthy(h[this].error) THEN Return(h, rhs)
    ELSE IF Truthy(ErrorOf(h, rhs)) THEN Return(h, Ref(this))
    ELSE Return(h, Ref(this))

Result_orElse(h, this, fn) ==
    IF Result_isOk(h[this]) THEN Return(h, Ref(this))
    ELSE Called(IF ~_isResult(h, fn) THEN Throw(h, "TypeError") ELSE Return(h, fn))

\* `Some(Ok(value))`: the argument is evaluated before the call is made.
Result_transpose(h, this) ==
    IF Result_isErr(h[this]) THEN Result_Some(h, Ref(this))
    ELSE IF ~_isOption(h, h[this].value) THEN Throw(h, "TypeError")
    ELSE IF Option_isSome(h[h[this].value.r])
         THEN LET value == Option_unwrap(h, h[this].value.r).ret
                  ok == Ok(h, value)
              IN  Result_Some(ok.h, ok.ret)
         ELSE Result_None(h)

\* Result.try(fn): `throws` tells whether fn raises `v` or returns it.
Result_static_try(h, throws, v) ==
    Called(IF throws THEN Err(h, v) ELSE Ok(h, v))

Result_default(h) == Throw(h, "Error")

\* `val.constructor.toString().includes('Error')`: the source text of a
\* class is what its constructor prints, and both classes name Error.
ConstructorNamesError(h, val) ==
    val = AnError \/ _isOption(h, val) \/ _isResult(h, val)

Result_from(h, val) ==
    IF Nullish(val) THEN Throw(h, "TypeError")
    ELSE IF ConstructorNamesError(h, val) THEN Err(h, val)
    ELSE Ok(h, val)

(***************************************************************************)
(* State machine.  The caller makes one call at a time: `last` records the *)
(* call that has just returned (its receiver as it was before the call,    *)
(* its arguments and its outcome) until the caller moves on.               *)
(***************************************************************************)
Idle ==
    [op |-> "idle", recv |-> Undef, arg |-> Undef, cb |-> Undef, ret |-> Undef,
     err |-> "none", calls |-> 0, done |-> FALSE, old |-> NoObject]

\* No getOrInsert has filled a container that is still untouched.
NoInsert == [recv |-> 0, v |-> Undef]

\* The four operations of Option.js that write `this.value`.
Mutating == {"take", "replace", "getOrInsert", "getOrInsertWith"}

Init ==
    /\ heap = <<>>
    /\ last = Idle
    /\ inserted = NoInsert
    /\ finished = {}

\* One call: `out` is its outcome on the current heap.
Step(op, recv, arg, cb, out) ==
    /\ heap' = out.h
    /\ last' = [op |-> op, recv |-> recv, arg |-> arg, cb |-> cb,
                ret |-> out.ret, err |-> out.err, calls |-> out.calls,
                done |-> out.done,
                old |-> IF recv.t = "ref" THEN heap[recv.r] ELSE NoObject]

\* The caller is between two calls.
Ready == last.op = "idle"

\* The call `A` made between two calls, on a heap of at most `n` objects.
Within(n, A) ==
    /\ Ready
    /\ A
    /\ Len(heap') <= n
    /\ UNCHANGED <<inserted, finished>>

\* The same, and `inserted` keeps the receiver and the value of the latest
\* getOrInsert that filled an absent container, until the next call of a
\* mutating operation.
Tracked(n, A) ==
    /\ Ready
    /\ A
    /\ Len(heap') <= n
    /\ inserted' = IF last'.op = "getOrInsert" /\ last'.err = "none" /\ ~last'.old.hasValue
                   THEN [recv |-> last'.recv.r, v |-> last'.arg]
                   ELSE IF last'.op \in Mutating THEN NoInsert ELSE inserted
    /\ UNCHANGED finished

\* The same as Within, and `finished` keeps the iterators whose next() has
\* returned `{ done: true }`.
Iterating(n, A) ==
    /\ Ready
    /\ A
    /\ Len(heap') <= n
    /\ finished' = IF last'.op = "iter.next" /\ last'.done
                   THEN finished \cup {last'.recv.r}
                   ELSE finished
    /\ UNCHANGED inserted

\* The caller goes on to its next statement.
Resume ==
    /\ last.op # "idle"
    /\ last' = Idle
    /\ UNCHANGED <<heap, inserted, finished>>

\* Factories and statics.
Call_Some(vs) == \E v \in vs : Step("Some", Undef, v, Undef, Some(heap, v))

Call_None == Step("None", Undef, Undef, Undef, None(heap))

Call_Option_default == Step("Option.default", Undef, Undef, Undef, Option_default(heap))

Call_Option_from ==
    \E v \in Vals(heap) : Step("Option.from", Undef, v, Undef, Option_from(heap, v))

Call_Ok(vs) == \E v \in vs : Step("Ok", Undef, v, Undef, Ok(heap, v))

Call_Err(vs) == \E v \in vs : Step("Err", Undef, v, Undef, Err(heap, v))

Call_Result_static_try ==
    \/ \E v \in Vals(heap) :
           Step("Result.try", Undef, Undef, v, Result_static_try(heap, FALSE, v))
    \/ Step("Result.try", Undef, AnError, Undef, Result_static_try(heap, TRUE, AnError))

Call_Result_default == Step("Result.default", Undef, Undef, Undef, Result_default(heap))

Call_Result_from ==
    \E v \in Vals(heap) \cup {AnError} :
        Step("Result.from", Undef, v, Undef, Result_from(heap, v))

\* Option: queries and extraction.
Call_Option_isSome ==
    \E this \in Options(heap) :
        Step("isSome", Ref(this), Undef, Undef, Return(heap, Bool(Option_isSome(heap[this]))))

Call_Option_isNone ==
    \E this \in Options(heap) :
        Step("isNone", Ref(this), Undef, Undef, Return(heap, Bool(Option_isNone(heap[this]))))

Call_Option_expect ==
    \E this \in Options(heap) :
        Step("expect", Ref(this), Undef, Undef, Option_expect(heap, this))

Call_Option_unwrap ==
    \E this \in Options(heap) :
        Step("unwrap", Ref(this), Undef, Undef, Option_unwrap(heap, this))

Call_Option_unwrapOr ==
    \E this \in Options(heap), alt \in Alts :
        Step("unwrapOr", Ref(this), alt, Undef, Option_unwrapOr(heap, this, alt))

Call_Option_unwrapOrElse ==
    \E this \in Options(heap), fn \in Alts :
        Step("unwrapOrElse", Ref(this), Undef, fn, Option_unwrapOrElse(heap, this, fn))

\* Option: transforming and combining.
Call_Option_map(vs) ==
    \E this \in Options(heap), fn \in vs :
        Step("map", Ref(this), Undef, fn, Option_map(heap, this, fn))

Call_Option_mapOr ==
    \E this \in Options(heap), alt \in Alts, fn \in Vals(heap) :
        Step("mapOr", Ref(this), alt, fn, Option_mapOr(heap, this, alt, fn))

Call_Option_mapOrElse ==
    \E this \in Options(heap), alt \in Alts, fn \in Vals(heap) :
        Step("mapOrElse", Ref(this), alt, fn, Option_mapOrElse(heap, this, alt, fn))

Call_Option_okOr ==
    \E this \in Options(heap), error \in Vals(heap) :
        Step("okOr", Ref(this), error, Undef, Option_okOr(heap, this, error))

Call_Option_okOrElse ==
    \E this \in Options(heap), getError \in Vals(heap) :
        Step("okOrElse", Ref(this), Undef, getError, Option_okOrElse(heap, this, getError))

Call_Option_and ==
    \E this \in Options(heap), rhs \in Vals(heap) :
        Step("and", Ref(this), rhs, Undef, Option_and(heap, this, rhs))

Call_Option_andThen ==
    \E this \in Options(heap), fn \in Vals(heap) :
        Step("andThen", Ref(this), Undef, fn, Option_andThen(heap, this, fn))

Call_Option_flatMap ==
    \E this \in Options(heap), fn \in Vals(heap) :
        Step("flatMap", Ref(this), Undef, fn, Option_flatMap(heap, this, fn))

Call_Option_filter ==
    \E this \in Options(heap), predicate \in PredicateVals :
        Step("filter", Ref(this), Undef, predicate, Option_filter(heap, this, predicate))

Call_Option_or ==
    \E this \in Options(heap), alt \in Vals(heap) :
        Step("or", Ref(this), alt, Undef, Option_or(heap, this, alt))

Call_Option_orElse ==
    \E this \in Options(heap), fn \in Vals(heap) :
        Step("orElse", Ref(this), Undef, fn, Option_orElse(heap, this, fn))

Call_Option_xor ==
    \E this \in Options(heap), alt \in Vals(heap) :
        Step("xor", Ref(this), alt, Undef, Option_xor(heap, this, alt))

Call_Option_transpose ==
    \E this \in Options(heap) :
        Step("transpose", Ref(this), Undef, Undef, Option_transpose(heap, this))

Call_Option_iter ==
    \E this \in Options(heap) :
        Step("iter", Ref(this), Undef, Undef, Option_iter(heap, this))

Call_Option_iter_next ==
    \E it \in Iterators(heap) :
        /\ heap[heap[it].value.r].cls = "Option"
        /\ Step("iter.next", Ref(it), Undef, Undef, Option_iter_next(heap, it))

\* Option: mutating operations.
Call_Option_getOrInsert(vs) ==
    \E this \in Options(heap), v \in vs :
        Step("getOrInsert", Ref(this), v, Undef, Option_getOrInsert(heap, this, v))

Call_Option_getOrInsertWith(vs) ==
    \E this \in Options(heap), fn \in vs :
        Step("getOrInsertWith", Ref(this), Undef, fn,
             Option_getOrInsertWith(heap, this, fn))

Call_Option_take ==
    \E this \in Options(heap) :
        Step("take", Ref(this), Undef, Undef, Option_take(heap, this))

Call_Option_replace(vs) ==
    \E this \in Options(heap), v \in vs :
        Step("replace", Ref(this), v, Undef, Option_replace(heap, this, v))

\* Result: queries and extraction.
Call_Result_isOk ==
    \E this \in Results(heap) :
        Step("Result#isOk", Ref(this), Undef, Undef, Return(heap, Bool(Result_isOk(heap[this]))))

Call_Result_isErr ==
    \E this \in Results(heap) :
        Step("Result#isErr", Ref(this), Undef, Undef, Return(heap, Bool(Result_isErr(heap[this]))))

Call_Result_unwrap ==
    \E this \in Results(heap) :
        Step("Result#unwrap", Ref(this), Undef, Undef, Result_unwrap(heap, this))

Call_Result_expect ==
    \E this \in Results(heap) :
        Step("Result#expect", Ref(this), Undef, Undef, Result_expect(heap, this))

Call_Result_unwrapErr ==
    \E this \in Results(heap) :
        Step("Result#unwrapErr", Ref(this), Undef, Undef, Result_unwrapErr(heap, this))

Call_Result_expectErr ==
    \E this \in Results(heap) :
        Step("Result#expectErr", Ref(this), Undef, Undef, Result_expectErr(heap, this))

Call_Result_unwrapOr ==
    \E this \in Results(heap), alt \in Alts :
        Step("Result#unwrapOr", Ref(this), alt, Undef, Result_unwrapOr(heap, this, alt))

Call_Result_unwrapOrElse ==
    \E this \in Results(heap), fn \in Alts :
        Step("Result#unwrapOrElse", Ref(this), Undef, fn, Result_unwrapOrElse(heap, this, fn))

Call_Result_try ==
    \E this \in Results(heap) :
        Step("Result#try", Ref(this), Undef, Undef, Result_try(heap, this))

\* Result: transforming and combining.
Call_Result_map ==
    \E this \in Results(heap), fn \in Vals(heap) :
        Step("Result#map", Ref(this), Undef, fn, Result_map(heap, this, fn))

Call_Result_mapErr ==
    \E this \in Results(heap), fn \in Vals(heap) :
        Step("Result#mapErr", Ref(this), Undef, fn, Result_mapErr(heap, this, fn))

Call_Result_and ==
    \E this \in Results(heap), rhs \in Vals(heap) :
        Step("Result#and", Ref(this), rhs, Undef, Result_and(heap, this, rhs))

Call_Result_andThen ==
    \E this \in Results(heap), fn \in Vals(heap) :
        Step("Result#andThen", Ref(this), Undef, fn, Result_andThen(heap, this, fn))

Call_Result_flatMap ==
    \E this \in Results(heap), fn \in Vals(heap) :
        Step("Result#flatMap", Ref(this), Undef, fn, Result_flatMap(heap, this, fn))

Call_Result_or ==
    \E this \in Results(heap), rhs \in Vals(heap) :
        Step("Result#or", Ref(this), rhs, Undef, Result_or(heap, this, rhs))

Call_Result_orElse ==
    \E this \in Results(heap), fn \in Vals(heap) :
        Step("Result#orElse", Ref(this), Undef, fn, Result_orElse(heap, this, fn))

Call_Result_transpose ==
    \E this \in Results(heap) :
        Step("Result#transpose", Ref(this), Undef, Undef, Result_transpose(heap, this))

Call_Result_iterator ==
    \E this \in Results(heap) :
        Step("Result#iterator", Ref(this), Undef, Undef, Result_iterator(heap, this))

Call_Result_iterator_next ==
    \E it \in Iterators(heap) :
        /\ heap[heap[it].value.r].cls = "Result"
        /\ Step("Result#iterator.next", Ref(it), Undef, Undef, Result_iterator_next(heap, it))

\* Every operation of the two modules.
Next ==
    \/ Resume
    \/ Within(MaxObjects, Call_Some(Vals(heap)))
    \/ Within(MaxObjects, Call_None)
    \/ Within(MaxObjects, Call_Option_default)
    \/ Within(MaxObjects, Call_Option_from)
    \/ Within(MaxObjects, Call_Ok(Vals(heap)))
    \/ Within(MaxObjects, Call_Err(Vals(heap)))
    \/ Within(MaxObjects, Call_Result_static_try)
    \/ Within(MaxObjects, Call_Result_default)
    \/ Within(MaxObjects, Call_Result_from)
    \/ Within(MaxObjects, Call_Option_isSome)
    \/ Within(MaxObjects, Call_Option_isNone)
    \/ Within(MaxObjects, Call_Option_expect)
    \/ Within(MaxObjects, Call_Option_unwrap)
    \/ Within(MaxObjects, Call_Option_unwrapOr)
    \/ Within(MaxObjects, Call_Option_unwrapOrElse)
    \/ Within(MaxObjects, Call_Option_map(Vals(heap)))
    \/ Within(MaxObjects, Call_Option_mapOr)
    \/ Within(MaxObjects, Call_Option_mapOrElse)
    \/ Within(MaxObjects, Call_Option_okOr)
    \/ Within(MaxObjects, Call_Option_okOrElse)
    \/ Within(MaxObjects, Call_Option_and)
    \/ Within(MaxObjects, Call_Option_andThen)
    \/ Within(MaxObjects, Call_Option_flatMap)
    \/ Within(MaxObjects, Call_Option_filter)
    \/ Within(MaxObjects, Call_Option_or)
    \/ Within(MaxObjects, Call_Option_orElse)
    \/ Within(MaxObjects, Call_Option_xor)
    \/ Within(MaxObjects, Call_Option_transpose)
    \/ Within(MaxObjects, Call_Option_iter)
    \/ Within(MaxObjects, Call_Option_iter_next)
    \/ Within(MaxObjects, Call_Option_getOrInsert(Vals(heap)))
    \/ Within(MaxObjects, Call_Option_getOrInsertWith(Vals(heap)))
    \/ Within(MaxObjects, Call_Option_take)
    \/ Within(MaxObjects, Call_Option_replace(Vals(heap)))
    \/ Within(MaxObjects, Call_Result_isOk)
    \/ Within(MaxObjects, Call_Result_isErr)
    \/ Within(MaxObjects, Call_Result_unwrap)
    \/ Within(MaxObjects, Call_Result_expect)
    \/ Within(MaxObjects, Call_Result_unwrapErr)
    \/ Within(MaxObjects, Call_Result_expectErr)
    \/ Within(MaxObjects, Call_Result_unwrapOr)
    \/ Within(MaxObjects, Call_Result_unwrapOrElse)
    \/ Within(MaxObjects, Call_Result_try)
    \/ Within(MaxObjects, Call_Result_map)
    \/ Within(MaxObjects, Call_Result_mapErr)
    \/ Within(MaxObjects, Call_Result_and)
    \/ Within(MaxObjects, Call_Result_andThen)
    \/ Within(MaxObjects, Call_Result_flatMap)
    \/ Within(MaxObjects, Call_Result_or)
    \/ Within(MaxObjects, Call_Result_orElse)
    \/ Within(MaxObjects, Call_Result_transpose)
    \/ Within(MaxObjects, Call_Result_iterator)
    \/ Within(MaxObjects, Call_Result_iterator_next)

Spec == Init /\ [][Next]_vars

\* The life of Option containers: the factories, the queries and the four
\* mutating operations, on every falsy primitive.
NextCell ==
    \/ Resume
    \/ Tracked(MaxHeap, Call_Some(WideVals(heap)))
    \/ Tracked(MaxHeap, Call_None)
    \/ Tracked(MaxHeap, Call_Option_isSome)
    \/ Tracked(MaxHeap, Call_Option_isNone)
    \/ Tracked(MaxHeap, Call_Option_unwrap)
    \/ Tracked(MaxHeap, Call_Option_map(WideVals(heap)))
    \/ Tracked(MaxHeap, Call_Option_getOrInsert(WideVals(heap)))
    \/ Tracked(MaxHeap, Call_Option_getOrInsertWith(WideVals(heap)))
    \/ Tracked(MaxHeap, Call_Option_take)
    \/ Tracked(MaxHeap, Call_Option_replace(WideVals(heap)))

SpecCell == Init /\ [][NextCell]_vars

\* Option containers and the iterators over them: the factories, iter(),
\* next() and the four mutating operations.
NextIter ==
    \/ Resume
    \/ Iterating(MaxIterHeap, Call_Some(Vals(heap)))
    \/ Iterating(MaxIterHeap, Call_None)
    \/ Iterating(MaxIterHeap, Call_Option_iter)
    \/ Iterating(MaxIterHeap, Call_Option_iter_next)
    \/ Iterating(MaxIterHeap, Call_Option_getOrInsert(Vals(heap)))
    \/ Iterating(MaxIterHeap, Call_Option_getOrInsertWith(Vals(heap)))
    \/ Iterating(MaxIterHeap, Call_Option_take)
    \/ Iterating(MaxIterHeap, Call_Option_replace(Vals(heap)))

SpecIter == Init /\ [][NextIter]_vars

\* Containers of containers: the four factories and the two transpose()
\* operations.
NextTranspose ==
    \/ Resume
    \/ Within(MaxTransposeHeap, Call_Some(NestVals(heap)))
    \/ Within(MaxTransposeHeap, Call_None)
    \/ Within(MaxTransposeHeap, Call_Ok(NestVals(heap)))
    \/ Within(MaxTransposeHeap, Call_Err(NestVals(heap)))
    \/ Within(MaxTransposeHeap, Call_Option_transpose)
    \/ Within(MaxTransposeHeap, Call_Result_transpose)

SpecTranspose == Init /\ [][NextTranspose]_vars

(***************************************************************************)
(* Deep equality, as the test suite's t.deepEqual decides it: two values   *)
(* are equal when they are the same value, or objects of the same class    *)
(* with the same slots holding deep-equal values.  An object may contain   *)
(* itself, so the comparison is cut once every pair of objects has been    *)
(* met.                                                                    *)
(***************************************************************************)
RECURSIVE DeepEqual(_, _, _, _)
DeepEqual(h, a, b, depth) ==
    IF a = b THEN TRUE
    ELSE IF a.t = "prim" \/ b.t = "prim" THEN FALSE
    ELSE IF depth = 0 THEN TRUE
    ELSE /\ h[a.r].cls = h[b.r].cls
         /\ h[a.r].hasValue = h[b.r].hasValue
         /\ h[a.r].hasError = h[b.r].hasError
         /\ h[a.r].taken = h[b.r].taken
         /\ DeepEqual(h, h[a.r].value, h[b.r].value, depth - 1)
         /\ DeepEqual(h, h[a.r].error, h[b.r].error, depth - 1)

DeepEquals(h, a, b) == DeepEqual(h, a, b, Len(h) * Len(h))

(***************************************************************************)
(* Claims                                                                  *)
(***************************************************************************)
\* The call recorded in `last` returned normally.
Returned == last.err = "none"

\* The object the recorded call returned.
Returned_object == heap[last.ret.r]

\* The receiver of the recorded call, as it is now.
Receiver == heap[last.recv.r]

\* The recorded call returned an object made by the call itself.
ReturnedNew == last.ret.t = "ref" /\ last.ret # last.recv /\ last.ret # last.arg /\ last.ret # last.cb

\* C1 (as claimed): every Result, whatever the arguments that built it
\* (undefined included), has exactly one of its value slot and its error
\* slot occupied, and isOk() is true exactly when the value slot is.
C1_ExactlyOneSlot ==
    \A i \in Results(heap) :
        /\ heap[i].hasValue # heap[i].hasError
        /\ Result_isOk(heap[i]) <=> heap[i].hasValue

\* C2 (as claimed): Some(v) is present for every v other than undefined.
C2_SomeOfAnyValueIsPresent ==
    last.op = "Some" /\ last.arg # Undef =>
        /\ Returned
        /\ Option_isSome(Returned_object)
        /\ ~Option_isNone(Returned_object)

\* C2 (amended): Some(v) is present for every v other than undefined and
\* other than an absent Option, falsy values included; None() is absent;
\* and whatever take, replace, getOrInsert and getOrInsertWith have done,
\* isSome() is the negation of isNone() and tells whether the slot holds a
\* value.
C2_PresenceIsSlotOccupancy ==
    /\ last.op = "Some" /\ last.arg # Undef
         /\ ~(_isOption(heap, last.arg) /\ Option_isNone(heap[last.arg.r])) =>
           /\ Returned
           /\ Option_isSome(Returned_object)
           /\ ~Option_isNone(Returned_object)
    /\ last.op = "None" =>
           /\ Returned
           /\ Option_isNone(Returned_object)
           /\ ~Option_isSome(Returned_object)
    /\ last.op = "isSome" => last.ret = Bool(last.old.value # Undef)
    /\ last.op = "isNone" => last.ret = Bool(last.old.value = Undef)
    /\ \A i \in Options(heap) :
           /\ Option_isSome(heap[i]) = ~Option_isNone(heap[i])
           /\ Option_isSome(heap[i]) = (heap[i].value # Undef)

\* C2 witness: Some of a falsy value has returned a present container, next
\* to a container that a mutating operation has emptied.
C2_Witness ==
    /\ last.op = "Some"
    /\ last.arg \in {Prim("0"), Prim("false"), Prim("null"), Prim("")}
    /\ Returned
    /\ Option_isSome(Returned_object)
    /\ \E i \in Options(heap) : Option_isNone(heap[i])

\* C3 (as claimed): take() on a receiver holding v leaves the receiver
\* absent and returns a new Option that is Present(v); on an absent
\* receiver it returns the receiver, which stays absent.
C3_TakeReturnsPresentOld ==
    last.op = "take" =>
        /\ Returned
        /\ Option_isNone(Receiver)
        /\ IF last.old.hasValue
           THEN ReturnedNew /\ Returned_object = Option(last.old.value)
           ELSE last.ret = last.recv

\* C4 (as claimed): replace(v), v not undefined, leaves the receiver
\* Present(v) and returns a container holding what the receiver held before
\* the call: Present(old) or Absent.
C4_ReplaceReturnsOld ==
    last.op = "replace" /\ last.arg # Undef =>
        /\ Returned
        /\ Receiver = Option(last.arg)
        /\ ReturnedNew
        /\ Returned_object = Option(last.old.value)

\* C5: getOrInsert(v), v not undefined, on an absent receiver stores v and
\* returns v, and every unwrap() of that receiver returns v until a mutating
\* operation runs; on a receiver Present(w) it returns w and leaves the
\* receiver as it was.  getOrInsert(undefined) throws a TypeError.
C5_GetOrInsert ==
    /\ last.op = "getOrInsert" =>
           IF last.arg = Undef THEN last.err = "TypeError"
           ELSE /\ Returned
                /\ IF last.old.hasValue
                   THEN last.ret = last.old.value /\ Receiver = last.old
                   ELSE last.ret = last.arg /\ Receiver = Option(last.arg)
    /\ last.op = "unwrap" /\ inserted.recv = last.recv.r =>
           Returned /\ last.ret = inserted.v

\* C5 witness: an unwrap() has returned the value that a getOrInsert stored
\* in the absent receiver.
C5_Witness ==
    /\ last.op = "unwrap"
    /\ inserted.recv = last.recv.r
    /\ last.ret = inserted.v

\* The state of object i when the recorded call began.
Before(i) == IF Ref(i) = last.recv THEN last.old ELSE heap[i]

\* C6: getOrInsertWith(compute) on a present receiver never invokes compute,
\* returns the contained value and leaves the receiver as it was; on an
\* absent receiver it invokes compute once, and stores and returns the inner
\* value of a present Option, throws a TypeError for an absent Option or
\* undefined, and stores and returns any other result as it is.
C6_GetOrInsertWith ==
    last.op = "getOrInsertWith" =>
        IF last.old.hasValue
        THEN /\ last.calls = 0
             /\ Returned
             /\ last.ret = last.old.value
             /\ Receiver = last.old
        ELSE /\ last.calls = 1
             /\ IF last.cb = Undef THEN last.err = "TypeError"
                ELSE IF _isOption(heap, last.cb)
                THEN IF Before(last.cb.r).hasValue
                     THEN /\ Returned
                          /\ last.ret = Before(last.cb.r).value
                          /\ Receiver = Option(Before(last.cb.r).value)
                     ELSE last.err = "TypeError"
                ELSE /\ Returned
                     /\ last.ret = last.cb
                     /\ Receiver = Option(last.cb)

\* C6 witness: compute returned a present Option to an absent receiver,
\* which now holds its inner value.
C6_Witness ==
    /\ last.op = "getOrInsertWith"
    /\ ~last.old.hasValue
    /\ _isOption(heap, last.cb)
    /\ Returned
    /\ Receiver.value = heap[last.cb.r].value

\* C7: a call changes no Option and no Result, except that take, replace,
\* getOrInsert and getOrInsertWith may change their receiver.
C7_OnlyTheReceiverChanges ==
    [][\A i \in 1..Len(heap) :
           heap[i].cls \in {"Option", "Result"} =>
               \/ heap'[i] = heap[i]
               \/ last'.op \in Mutating /\ last'.recv = Ref(i)]_vars

\* C7 witness: a mutating operation has changed its receiver while another
\* container exists.
C7_Witness ==
    /\ last.op \in Mutating
    /\ Receiver # last.old
    /\ \E i \in Options(heap) \cup Results(heap) : Ref(i) # last.recv

\* C8 (as claimed): map(fn) on a present receiver returns a Present whose
\* contained value is fn(v), even when fn(v) is an Option; on an absent
\* receiver it returns the receiver and never invokes fn.  (Stated for the
\* callbacks that return a value.)
C8_MapNeverFlattens ==
    last.op = "map" /\ last.cb # Undef =>
        /\ Returned
        /\ IF last.old.hasValue
           THEN last.calls = 1 /\ ReturnedNew /\ Returned_object = Option(last.cb)
           ELSE last.calls = 0 /\ last.ret = last.recv

\* C8 (amended): map(fn) on a present receiver invokes fn once and returns
\* Some(fn(v)): a new Present of fn(v) when fn(v) is neither undefined nor
\* an Option, a new Option with the contents of fn(v) (one level flattened)
\* when fn(v) is an Option, and a TypeError when fn(v) is undefined; on an
\* absent receiver it returns the receiver and never invokes fn.
C8_MapWrapsWithSome ==
    last.op = "map" =>
        IF last.old.hasValue
        THEN /\ last.calls = 1
             /\ IF last.cb = Undef THEN last.err = "TypeError"
                ELSE /\ Returned
                     /\ ReturnedNew
                     /\ Returned_object =
                            IF _isOption(heap, last.cb)
                            THEN Option(heap[last.cb.r].value)
                            ELSE Option(last.cb)
        ELSE last.calls = 0 /\ Returned /\ last.ret = last.recv

\* C8 witness: fn returned a present Option, and map returned its copy.
C8_Witness ==
    /\ last.op = "map"
    /\ last.old.hasValue
    /\ _isOption(heap, last.cb)
    /\ heap[last.cb.r].hasValue
    /\ Returned
    /\ Returned_object = heap[last.cb.r]

\* C9 (as claimed): for every Option o that factories and mutating
\* operations can build, o.map(x => x) deep-equals o.
C9_MapIdentity ==
    last.op = "map" /\ (last.old.hasValue => last.cb = last.old.value) =>
        Returned /\ DeepEquals(heap, last.ret, last.recv)

\* C10 (as claimed): or(rhs) with a Result rhs returns the receiver when
\* the receiver is a Success and rhs when it is a Failure, whatever the
\* error value.
C10_OrReturnsRhsOnFailure ==
    last.op = "Result#or" /\ _isResult(heap, last.arg) =>
        /\ Returned
        /\ last.old.hasValue => last.ret = last.recv
        /\ last.old.hasError => last.ret = last.arg

\* C11 (as claimed): iterating a Result yields its success value once and
\* then reports done when the Result is a Success, and reports done at once
\* when it is a Failure: the error is never yielded.
C11_ResultIterationYieldsValueOnly ==
    last.op = "Result#iterator.next" =>
        LET this == heap[last.old.value.r]
        IN  IF Result_isOk(this) /\ ~last.old.taken
            THEN ~last.done /\ last.ret = this.value
            ELSE last.done

\* C12 (as claimed): an iterator that iter() returned yields the contained
\* value, once, if the container is present and nothing if it is absent;
\* an iterator that has reported done reports done on every later next();
\* and next() on one iterator changes neither the container nor any other
\* iterator over it.
C12_OptionIteration ==
    /\ [](last.op = "iter.next" =>
            LET it == last.recv.r
                this == heap[last.old.value.r]
            IN  /\ it \in finished => last.done
                /\ last.old.taken => last.done
                /\ Option_isNone(this) => last.done
                /\ ~last.done => last.ret = this.value /\ heap[it].taken
                /\ Option_isSome(this) /\ ~last.old.taken /\ it \notin finished =>
                       ~last.done)
    /\ [][last'.op = "iter.next" =>
            \A j \in 1..Len(heap) : j # last'.recv.r => heap'[j] = heap[j]]_vars

\* C13 (as claimed): Ok(r), r a Result holding the failure e, is a Failure
\* of e, and Err(r), r a Result holding the success v, is a Success of v;
\* in every other case Ok(x) is a Success of x and Err(x) a Failure of x.
C13_FactoryCollapse ==
    /\ last.op = "Ok" =>
           /\ Returned
           /\ ReturnedNew
           /\ IF _isResult(heap, last.arg) /\ Result_isErr(heap[last.arg.r])
              THEN /\ Result_isErr(Returned_object)
                   /\ Returned_object.error = heap[last.arg.r].error
              ELSE /\ Result_isOk(Returned_object)
                   /\ Returned_object.value = last.arg
    /\ last.op = "Err" =>
           /\ Returned
           /\ ReturnedNew
           /\ IF _isResult(heap, last.arg) /\ Result_isOk(heap[last.arg.r])
              THEN /\ Result_isOk(Returned_object)
                   /\ Returned_object.value = heap[last.arg.r].value
              ELSE /\ Result_isErr(Returned_object)
                   /\ Returned_object.error = last.arg

\* C14 (as claimed): Option.transpose() of an absent receiver is a Success
\* holding an absent Option; of a receiver holding a Success of v, a Success
\* holding a present Option of v; of a receiver holding a Failure of e, a
\* Failure of e; and it throws TypeError when the receiver holds anything
\* but a Result.
C14_OptionTranspose ==
    last.op = "transpose" =>
        IF Option_isNone(last.old)
        THEN /\ Returned
             /\ Result_isOk(Returned_object)
             /\ _isOption(heap, Returned_object.value)
             /\ Option_isNone(heap[Returned_object.value.r])
        ELSE IF ~_isResult(heap, last.old.value)
        THEN last.err = "TypeError"
        ELSE IF Result_isOk(heap[last.old.value.r])
        THEN /\ Returned
             /\ ReturnedNew
             /\ Result_isOk(Returned_object)
             /\ _isOption(heap, Returned_object.value)
             /\ heap[Returned_object.value.r] = Option(heap[last.old.value.r].value)
        ELSE /\ Returned
             /\ ReturnedNew
             /\ Result_isErr(Returned_object)
             /\ Returned_object.error = heap[last.old.value.r].error

\* C15 (as claimed): Result.transpose() of a Failure of e is a present
\* Option holding a Failure of e; of a Success holding an absent Option, an
\* absent Option; of a Success holding a present Option of v, a present
\* Option holding a Success of v; and it throws TypeError when the receiver
\* is a Success of anything but an Option.
C15_ResultTranspose ==
    last.op = "Result#transpose" =>
        IF Result_isErr(last.old)
        THEN /\ Returned
             /\ Option_isSome(Returned_object)
             /\ _isResult(heap, Returned_object.value)
             /\ Result_isErr(heap[Returned_object.value.r])
             /\ heap[Returned_object.value.r].error = last.old.error
        ELSE IF ~_isOption(heap, last.old.value)
        THEN last.err = "TypeError"
        ELSE IF Option_isSome(heap[last.old.value.r])
        THEN /\ Returned
             /\ Option_isSome(Returned_object)
             /\ _isResult(heap, Returned_object.value)
             /\ heap[Returned_object.value.r] = Result(heap[last.old.value.r].value, Undef)
        ELSE /\ Returned
             /\ _isOption(heap, last.ret)
             /\ Option_isNone(Returned_object)

\* C16: a mutating operation that throws leaves its receiver as it was
\* before the call.  replace(undefined) and getOrInsert(undefined) throw
\* TypeError on a receiver in either state; getOrInsertWith(compute), where
\* compute returns undefined or an absent Option, throws TypeError on an
\* absent receiver; and none of them has written the receiver's slot.
C16_FailedMutationLeavesReceiver ==
    /\ last.op \in Mutating /\ ~Returned => Receiver = last.old
    /\ last.op \in {"replace", "getOrInsert"} /\ last.arg = Undef =>
           last.err = "TypeError" /\ Receiver = last.old
    /\ last.op = "getOrInsertWith"
         /\ (last.cb = Undef
               \/ (_isOption(heap, last.cb) /\ Option_isNone(Before(last.cb.r)))) =>
           /\ Receiver = last.old
           /\ Option_isNone(last.old) => last.err = "TypeError"

\* A present receiver on which replace or getOrInsert has just thrown, and
\* an absent one on which getOrInsertWith has, its compute returning an
\* absent Option.
C16_Witness ==
    \/ /\ last.op \in {"replace", "getOrInsert"}
       /\ last.err = "TypeError"
       /\ Option_isSome(last.old)
    \/ /\ last.op = "getOrInsertWith"
       /\ last.err = "TypeError"
       /\ _isOption(heap, last.cb)

====
